---- MODULE Spec2Model ----
(***************************************************************************)
(* Client-side conversation synchronisation engine (WebSocketService of    *)
(* frontend/src/app/services/websocket.service.ts): the Store              *)
(* (conversationsSubject), the Active Conversation View                    *)
(* (currentConversationSubject), pagination, the push transport and the    *)
(* HTTP requests in flight, together with the server they talk to.         *)
(*                                                                         *)
(* Encoding of TypeScript values:                                          *)
(*   null conversation      NullConv (id "")                               *)
(*   null / absent message  NoMsg (id 0)                                   *)
(*   absent number          Undef (-1); Num(x) is the code's (x || 0)      *)
(*   absent messages array  << >> (the code reads it as (messages || []))  *)
(*   null closed_at/contact 0                                              *)
(* created_at / updated_at / content are copied through unread and are     *)
(* left out of the records.                                                *)
(***************************************************************************)
EXTENDS Integers, Sequences, FiniteSets, TLC

\* ---------------------------------------------------------------- bounds
MaxPush == 2      \* push events the server emits in a run
MaxCalls == 2     \* calls the UI makes on the service in a run
MaxMsgs == 2      \* messages the server holds, the one it starts with included
MaxTime == 2      \* distinct closed_at timestamps the server can return
MaxQueue == 1     \* push events in flight at a time
PageSize == 1     \* conversations per page of GET /conversations/?page=N
MaxUser == 2      \* contacts and users the server knows

ConvIds == {"A", "B"}
Directions == {"SENT", "RECEIVED"}
Times == 1..MaxTime

Undef == -1
Num(x) == IF x = Undef THEN 0 ELSE x

\* a message; of conversation and conversation_id a payload carries one, "" is absent
NoMsg == [id |-> 0, conversation |-> "", conversation_id |-> "", direction |-> ""]

NullConv ==
  [id |-> "", status |-> "", closed_at |-> 0, contact |-> 0, assigned_user |-> 0,
   message_count |-> Undef, unread_count |-> Undef, last_message |-> NoMsg,
   messages |-> << >>]

\* ---------------------------------------------------------------- sequences
Range(s) == {s[i] : i \in 1..Len(s)}

\* conversations.find(c => c.id === id): the first match, NullConv for undefined
Find(convs, id) ==
  IF \E i \in 1..Len(convs) : convs[i].id = id
  THEN convs[CHOOSE i \in 1..Len(convs) :
               /\ convs[i].id = id
               /\ \A j \in 1..(i - 1) : convs[j].id # id]
  ELSE NullConv

\* ---------------------------------------------------------------- state
VARIABLES
  conversations,        \* conversationsSubject.value: the Store
  currentConversation,  \* currentConversationSubject.value: the View
  currentPage,          \* private currentPage
  hasMorePages,         \* private hasMorePages
  loading,              \* loadingSubject.value
  conversationLoading,  \* conversationLoadingSubject.value
  loadingMore,          \* loadingMoreSubject.value
  connectionStatus,     \* connectionStatusSubject.value
  socket,               \* this.socket # null
  readyState,           \* readyState of the WebSocket object created last
  timers,               \* reconnect timers pending
  pending,              \* HTTP requests in flight, each with its continuation
  wsQueue,              \* push events sent by the server, not yet handled
  server,               \* the server's conversations
  serverList,           \* the server's conversation ids, most recent first
  nMsgs,                \* messages created at the server so far
  nPush,                \* push events emitted so far
  nCalls,               \* UI calls made so far
  observed,             \* new_message events handled, per conversation id
  lastRequested,        \* the id last passed to getConversationDetail, "" for none
  lastOp,               \* the operation of the last step and its argument
  emitted               \* what the last step emitted: errors, successes, commands

vars == <<conversations, currentConversation, currentPage, hasMorePages, loading,
          conversationLoading, loadingMore, connectionStatus, socket, readyState,
          timers, pending, wsQueue, server, serverList, nMsgs, nPush, nCalls,
          observed, lastRequested, lastOp, emitted>>

storeVars == <<conversations, currentConversation>>
pageVars == <<currentPage, hasMorePages>>
flagVars == <<loading, conversationLoading, loadingMore>>
transportVars == <<connectionStatus, socket, readyState, timers>>
serverVars == <<server, serverList, nMsgs>>

\* ---------------------------------------------------------------- handleNewMessage
\* currentConv && currentConv.id === message.conversation
isCurrentConversation(currentConv, message) ==
  currentConv.id # "" /\ currentConv.id = message.conversation

\* mutant: the active conversation is not exempted
shouldIncrementUnread_mut(message, isCurrent) ==
  message.direction = "RECEIVED"

\* message.direction === 'RECEIVED' && !isCurrentConversation
shouldIncrementUnread(message, isCurrent) ==
  message.direction = "RECEIVED" /\ ~isCurrent

\* mutant: the message is put in front of the View's list
NewMessageView_mut(currentConv, message) ==
  IF isCurrentConversation(currentConv, message)
  THEN [currentConv EXCEPT !.messages = <<message>> \o @]
  ELSE currentConv

\* the View after handleNewMessage: the message appended when it is the active one
NewMessageView(currentConv, message) ==
  IF isCurrentConversation(currentConv, message)
  THEN [currentConv EXCEPT !.messages = Append(@, message)]
  ELSE currentConv

\* mutant: a message already in the entry's list is not counted again
NewMessageEntry_mut(conv, message, isCurrent) ==
  IF conv.id = message.conversation
  THEN [conv EXCEPT
          !.last_message = message,
          !.message_count =
             IF \E k \in 1..Len(conv.messages) : conv.messages[k].id = message.id
             THEN Num(conv.message_count)
             ELSE Num(conv.message_count) + 1,
          !.unread_count = IF shouldIncrementUnread(message, isCurrent)
                           THEN Num(conv.unread_count) + 1
                           ELSE Num(conv.unread_count),
          !.messages = Append(conv.messages, message)]
  ELSE conv

\* one Store entry after handleNewMessage
NewMessageEntry(conv, message, isCurrent) ==
  IF conv.id = message.conversation
  THEN [conv EXCEPT
          !.last_message = message,
          !.message_count = Num(conv.message_count) + 1,
          !.unread_count = IF shouldIncrementUnread(message, isCurrent)
                           THEN Num(conv.unread_count) + 1
                           ELSE Num(conv.unread_count),
          !.messages = Append(conv.messages, message)]
  ELSE conv

\* mutant: the Store is left alone when the message is for the active conversation
NewMessageStore_mut(convs, message, isCurrent) ==
  IF isCurrent THEN convs
  ELSE [i \in 1..Len(convs) |-> NewMessageEntry(convs[i], message, isCurrent)]

\* the Store after handleNewMessage
NewMessageStore(convs, message, isCurrent) ==
  [i \in 1..Len(convs) |-> NewMessageEntry(convs[i], message, isCurrent)]

\* ---------------------------------------------------------------- other Store updates
\* mutant: the conversation is put at the end of the list
addNewConversation_mut(convs, conversation) == convs \o <<conversation>>

\* addNewConversation: [conversation, ...conversations]
addNewConversation(convs, conversation) == <<conversation>> \o convs

\* mutant: the payload is merged into the entry, whose cached messages survive
ReplaceEntry_mut(convs, conversation) ==
  [i \in 1..Len(convs) |->
     IF convs[i].id = conversation.id
     THEN [conversation EXCEPT !.messages = convs[i].messages]
     ELSE convs[i]]

\* updateConversation's map: the matching entries replaced wholesale
ReplaceEntry(convs, conversation) ==
  [i \in 1..Len(convs) |->
     IF convs[i].id = conversation.id THEN conversation ELSE convs[i]]

\* resetUnreadCount
resetUnreadCount(convs, conversationId) ==
  [i \in 1..Len(convs) |->
     IF convs[i].id = conversationId
     THEN [convs[i] EXCEPT !.unread_count = 0]
     ELSE convs[i]]

\* loadInitialData / loadMoreConversations: conversations.map(conv => ({...conv, unread_count: 0}))
WithUnreadZero(convs) ==
  [i \in 1..Len(convs) |-> [convs[i] EXCEPT !.unread_count = 0]]

\* closeConversation: the Store entries of conversationId set CLOSED
CloseStore(convs, conversationId, closedAt) ==
  [i \in 1..Len(convs) |->
     IF convs[i].id = conversationId
     THEN [convs[i] EXCEPT !.status = "CLOSED", !.closed_at = closedAt]
     ELSE convs[i]]

\* mutant: the View is set CLOSED whichever conversation it holds
CloseView_mut(currentConv, conversationId, closedAt) ==
  IF currentConv.id # ""
  THEN [currentConv EXCEPT !.status = "CLOSED", !.closed_at = closedAt]
  ELSE currentConv

\* closeConversation: the View set CLOSED when it holds conversationId
CloseView(currentConv, conversationId, closedAt) ==
  IF currentConv.id # "" /\ currentConv.id = conversationId
  THEN [currentConv EXCEPT !.status = "CLOSED", !.closed_at = closedAt]
  ELSE currentConv

\* a || b || null on ids, 0 standing for null
OrElse(a, b) == IF a # 0 THEN a ELSE b

\* what getConversationDetail keeps of existingConv across its await
NoExisting == [found |-> FALSE, contact |-> 0, assigned_user |-> 0, messages |-> << >>]

Existing(convs, conversationId) ==
  LET c == Find(convs, conversationId) IN
  IF c.id = "" THEN NoExisting
  ELSE [found |-> TRUE, contact |-> c.contact, assigned_user |-> c.assigned_user,
        messages |-> c.messages]

\* mutant: contact and assigned_user are taken from the response first
DetailConversation_mut(conversationId, existingConv, response) ==
  [id |-> conversationId,
   status |-> response.status,
   closed_at |-> response.closed_at,
   contact |-> OrElse(response.contact, existingConv.contact),
   assigned_user |-> OrElse(response.assigned_user, existingConv.assigned_user),
   message_count |-> Undef,
   unread_count |-> 0,
   last_message |-> NoMsg,
   messages |-> IF Len(existingConv.messages) > 0
                THEN existingConv.messages
                ELSE response.messages]

\* the conversation getConversationDetail builds from the response
DetailConversation(conversationId, existingConv, response) ==
  [id |-> conversationId,
   status |-> response.status,
   closed_at |-> response.closed_at,
   contact |-> OrElse(existingConv.contact, response.contact),
   assigned_user |-> OrElse(existingConv.assigned_user, response.assigned_user),
   message_count |-> Undef,
   unread_count |-> 0,
   last_message |-> NoMsg,
   messages |-> IF Len(existingConv.messages) > 0
                THEN existingConv.messages
                ELSE response.messages]

\* ---------------------------------------------------------------- sendMessage
\* content is a sequence of characters; " " is the only whitespace used
RECURSIVE TrimLeft(_)
TrimLeft(s) == IF s # << >> /\ Head(s) = " " THEN TrimLeft(Tail(s)) ELSE s

RECURSIVE TrimRight(_)
TrimRight(s) ==
  IF s # << >> /\ s[Len(s)] = " " THEN TrimRight(SubSeq(s, 1, Len(s) - 1)) ELSE s

\* mutant: only leading whitespace is removed
Trim_mut(s) == TrimLeft(s)

\* String.prototype.trim
Trim(s) == TrimRight(TrimLeft(s))

\* mutant: only the empty string is taken as blank
IsBlank_mut(content) == content = << >>

\* !content.trim()
IsBlank(content) == Trim(content) = << >>

Contents ==
  {<< >>, <<" ">>, <<" ", " ">>, <<"h">>, <<" ", "h", " ">>, <<"h", " ", "i">>}

\* ---------------------------------------------------------------- the server
NoServerConv ==
  [status |-> "OPEN", closed_at |-> 0, contact |-> 0, assigned_user |-> 0,
   messages |-> << >>]

\* the summary the server returns for a conversation in lists and push events
Summary(srv, id) ==
  [id |-> id,
   status |-> srv[id].status,
   closed_at |-> srv[id].closed_at,
   contact |-> srv[id].contact,
   assigned_user |-> srv[id].assigned_user,
   message_count |-> Len(srv[id].messages),
   unread_count |-> Undef,
   last_message |-> IF srv[id].messages = << >> THEN NoMsg
                    ELSE srv[id].messages[Len(srv[id].messages)],
   messages |-> << >>]

NoResp ==
  [ready |-> FALSE, status |-> "", closed_at |-> 0, contact |-> 0,
   assigned_user |-> 0, messages |-> << >>, results |-> << >>, next |-> FALSE]

\* GET /conversations/?page=N
PageFirst(page) == (page - 1) * PageSize + 1
PageLast(list, page) == IF page * PageSize < Len(list) THEN page * PageSize ELSE Len(list)
PageExists(list, page) == page >= 1 /\ (page = 1 \/ PageFirst(page) <= Len(list))

PageResponse(srv, list, page) ==
  [NoResp EXCEPT
     !.ready = TRUE,
     !.results = [i \in 1..(PageLast(list, page) - PageFirst(page) + 1) |->
                    Summary(srv, list[PageFirst(page) + i - 1])],
     !.next = page * PageSize < Len(list)]

\* GET /conversations/{id}/messages/
DetailResponse(srv, id) ==
  [NoResp EXCEPT
     !.ready = TRUE,
     !.status = srv[id].status,
     !.closed_at = srv[id].closed_at,
     !.contact = srv[id].contact,
     !.assigned_user = srv[id].assigned_user,
     !.messages = srv[id].messages]

\* POST /conversations/{id}/close/ and POST /conversations/
CloseResponse(closedAt) ==
  [NoResp EXCEPT !.ready = TRUE, !.status = "CLOSED", !.closed_at = closedAt]
CreateResponse == [NoResp EXCEPT !.ready = TRUE, !.status = "OPEN"]

\* an HTTP request in flight and the locals its continuation holds
Request(n, kind, id, page, existingConv) ==
  [n |-> n, kind |-> kind, id |-> id, page |-> page, existing |-> existingConv,
   resp |-> NoResp]

\* push events
Event(type, conversation, message, error) ==
  [type |-> type, conversation |-> conversation, message |-> message, error |-> error]

\* ---------------------------------------------------------------- step records
Op(op, id, message, n) ==
  [op |-> op, id |-> id, msg |-> message, n |-> n, content |-> << >>,
   isInternal |-> FALSE]

Quiet == [errors |-> << >>, success |-> << >>, sent |-> << >>, http |-> << >>]
Err(text) == [Quiet EXCEPT !.errors = <<text>>]
Http(kind, id, page) == [kind |-> kind, id |-> id, page |-> page]

\* ---------------------------------------------------------------- Init
\* The constructor has run initialize() up to the await of loadInitialData():
\* loading is true, the first page is requested, connect() has not run yet.
Init ==
  /\ conversations = << >>
  /\ currentConversation = NullConv
  /\ currentPage = 1
  /\ hasMorePages = TRUE
  /\ loading = TRUE
  /\ conversationLoading = FALSE
  /\ loadingMore = FALSE
  /\ connectionStatus = FALSE
  /\ socket = FALSE
  /\ readyState = "NONE"
  /\ timers = 0
  /\ pending = {Request(0, "init", "", 1, NoExisting)}
  /\ wsQueue = << >>
  /\ \E history \in {<<[id |-> 1, conversation |-> "A", conversation_id |-> "",
                          direction |-> "RECEIVED"]>>} :
       /\ server = [id \in ConvIds |->
                      IF id = "A" THEN [NoServerConv EXCEPT !.messages = history]
                      ELSE NoServerConv]
       /\ nMsgs = Len(history)
  /\ serverList = <<"A">>
  /\ nPush = 0
  /\ nCalls = 0
  /\ observed = [id \in ConvIds |-> 0]
  /\ lastRequested = ""
  /\ lastOp = Op("constructor", "", NoMsg, 0)
  /\ emitted = [Quiet EXCEPT !.http = <<Http("init", "", 1)>>]

\* ---------------------------------------------------------------- transport
\* the smallest request number not in use by a pending request
FreshN(reqs) == CHOOSE n \in 0..Cardinality(reqs) : \A r \in reqs : r.n # n

Connected == readyState = "OPEN"

\* connect(): new WebSocket(...) either returns a CONNECTING socket or throws,
\* and the catch branch reports the status and schedules a reconnect
connect(throws, timersNow) ==
  IF throws
  THEN /\ connectionStatus' = FALSE
       /\ timers' = timersNow + 1
       /\ UNCHANGED <<socket, readyState>>
  ELSE /\ socket' = TRUE
       /\ readyState' = "CONNECTING"
       /\ timers' = timersNow
       /\ UNCHANGED connectionStatus

\* socket.onopen
SocketOpen ==
  /\ readyState = "CONNECTING"
  /\ readyState' = "OPEN"
  /\ connectionStatus' = TRUE
  /\ lastOp' = Op("onopen", "", NoMsg, 0)
  /\ emitted' = Quiet
  /\ UNCHANGED <<storeVars, pageVars, flagVars, socket, timers, pending, wsQueue,
                 serverVars, nPush, nCalls, observed, lastRequested>>

\* mutant: the error handler schedules a reconnect as the close handler does
SocketError_mut ==
  /\ readyState \in {"CONNECTING", "OPEN"}
  /\ connectionStatus' = FALSE
  /\ timers' = timers + 1
  /\ lastOp' = Op("onerror", "", NoMsg, 0)
  /\ emitted' = Err("Connection error")
  /\ UNCHANGED <<storeVars, pageVars, flagVars, socket, readyState, pending,
                 wsQueue, serverVars, nPush, nCalls, observed, lastRequested>>

\* socket.onerror
SocketError ==
  /\ readyState \in {"CONNECTING", "OPEN"}
  /\ connectionStatus' = FALSE
  /\ lastOp' = Op("onerror", "", NoMsg, 0)
  /\ emitted' = Err("Connection error")
  /\ UNCHANGED <<storeVars, pageVars, flagVars, socket, readyState, timers, pending,
                 wsQueue, serverVars, nPush, nCalls, observed, lastRequested>>

\* mutant: the close handler schedules the reconnect without reporting the status
SocketClose_mut ==
  /\ readyState \in {"CONNECTING", "OPEN", "CLOSING"}
  /\ readyState' = "CLOSED"
  /\ timers' = timers + 1
  /\ wsQueue' = << >>
  /\ lastOp' = Op("onclose", "", NoMsg, 0)
  /\ emitted' = Quiet
  /\ UNCHANGED <<storeVars, pageVars, flagVars, connectionStatus, socket, pending,
                 serverVars, nPush, nCalls, observed, lastRequested>>

\* socket.onclose: scheduleReconnect(); what the server had sent is lost
SocketClose ==
  /\ readyState \in {"CONNECTING", "OPEN", "CLOSING"}
  /\ readyState' = "CLOSED"
  /\ connectionStatus' = FALSE
  /\ timers' = timers + 1
  /\ wsQueue' = << >>
  /\ lastOp' = Op("onclose", "", NoMsg, 0)
  /\ emitted' = Quiet
  /\ UNCHANGED <<storeVars, pageVars, flagVars, socket, pending, serverVars, nPush,
                 nCalls, observed, lastRequested>>

\* scheduleReconnect's timer fires: connect()
TimerFires ==
  /\ timers > 0
  /\ \E throws \in BOOLEAN : connect(throws, timers - 1)
  /\ lastOp' = Op("timer", "", NoMsg, 0)
  /\ emitted' = Quiet
  /\ UNCHANGED <<storeVars, pageVars, flagVars, pending, wsQueue, serverVars, nPush,
                 nCalls, observed, lastRequested>>

\* disconnect(): socket.close(), this.socket = null
Disconnect ==
  /\ nCalls < MaxCalls
  /\ nCalls' = nCalls + 1
  /\ socket' = FALSE
  /\ readyState' = IF socket /\ readyState \in {"CONNECTING", "OPEN"}
                   THEN "CLOSING" ELSE readyState
  /\ lastOp' = Op("disconnect", "", NoMsg, 0)
  /\ emitted' = Quiet
  /\ UNCHANGED <<storeVars, pageVars, flagVars, connectionStatus, timers, pending,
                 wsQueue, serverVars, nPush, observed, lastRequested>>

\* ---------------------------------------------------------------- the server's pushes
ServerMessages == UNION {Range(server[id].messages) : id \in ConvIds}

\* the server emits an event on the open connection
Push(event) ==
  /\ Connected
  /\ nPush < MaxPush
  /\ Len(wsQueue) < MaxQueue
  /\ nPush' = nPush + 1
  /\ wsQueue' = Append(wsQueue, event)

\* a message is created at the server and sent to the connected client
ServerNewMessage ==
  /\ nMsgs < MaxMsgs
  /\ \E id \in Range(serverList), d \in Directions :
       LET m == [id |-> nMsgs + 1, conversation |-> id, conversation_id |-> "",
                 direction |-> d] IN
       /\ server' = [server EXCEPT ![id].messages = Append(@, m)]
       /\ nMsgs' = nMsgs + 1
       /\ Push(Event("new_message", NullConv, m, ""))
  /\ UNCHANGED <<storeVars, pageVars, flagVars, transportVars, pending, serverList,
                 nCalls, observed, lastRequested, lastOp, emitted>>

\* the same, the event naming the conversation in the field conversation_id
ServerNewMessageById ==
  /\ nMsgs < MaxMsgs
  /\ \E id \in Range(serverList), d \in Directions :
       LET m == [id |-> nMsgs + 1, conversation |-> id, conversation_id |-> "",
                 direction |-> d] IN
       /\ server' = [server EXCEPT ![id].messages = Append(@, m)]
       /\ nMsgs' = nMsgs + 1
       /\ Push(Event("new_message", NullConv,
                     [m EXCEPT !.conversation = "", !.conversation_id = id], ""))
  /\ UNCHANGED <<storeVars, pageVars, flagVars, transportVars, pending, serverList,
                 nCalls, observed, lastRequested, lastOp, emitted>>

\* the server delivers a message of its history once more
ServerRedelivers ==
  /\ \E m \in ServerMessages : Push(Event("new_message", NullConv, m, ""))
  /\ UNCHANGED <<storeVars, pageVars, flagVars, transportVars, pending, serverVars,
                 nCalls, observed, lastRequested, lastOp, emitted>>

\* the server announces the current summary of a conversation
ServerUpdated ==
  /\ \E id \in Range(serverList) :
       Push(Event("conversation_updated", Summary(server, id), NoMsg, ""))
  /\ UNCHANGED <<storeVars, pageVars, flagVars, transportVars, pending, serverVars,
                 nCalls, observed, lastRequested, lastOp, emitted>>

\* a conversation is created at the server by another party
ServerNewConversation ==
  /\ \E id \in ConvIds \ Range(serverList) :
       /\ serverList' = <<id>> \o serverList
       /\ IF Connected
          THEN Push(Event("new_conversation", Summary(server, id), NoMsg, ""))
          ELSE UNCHANGED <<nPush, wsQueue>>
  /\ UNCHANGED <<storeVars, pageVars, flagVars, transportVars, pending, server, nMsgs,
                 nCalls, observed, lastRequested, lastOp, emitted>>

\* the server reports an error on the connection
ServerError ==
  /\ Push(Event("error", NullConv, NoMsg, "server error"))
  /\ UNCHANGED <<storeVars, pageVars, flagVars, transportVars, pending, serverVars,
                 nCalls, observed, lastRequested, lastOp, emitted>>

\* the types of push events the client knows
EventTypes == {"new_message", "new_conversation", "conversation_updated", "error"}

\* the server emits an event without its payload, or of a type unknown to the client
ServerMalformed ==
  /\ \/ \E type \in EventTypes \cup {"typing"} : Push(Event(type, NullConv, NoMsg, ""))
     \/ Push(Event("typing", NullConv, NoMsg, "server error"))
  /\ UNCHANGED <<storeVars, pageVars, flagVars, transportVars, pending, serverVars,
                 nCalls, observed, lastRequested, lastOp, emitted>>

\* contacts and users by number, 0 standing for null
Users == 0..MaxUser

\* the contact or the assigned user of a conversation is changed at the server
ServerEdits ==
  /\ \E id \in Range(serverList), u \in Users :
       \/ u # server[id].contact /\ server' = [server EXCEPT ![id].contact = u]
       \/ u # server[id].assigned_user
            /\ server' = [server EXCEPT ![id].assigned_user = u]
  /\ UNCHANGED <<storeVars, pageVars, flagVars, transportVars, pending, wsQueue,
                 serverList, nMsgs, nPush, nCalls, observed, lastRequested, lastOp,
                 emitted>>

\* ---------------------------------------------------------------- the server's HTTP side
ListKinds == {"init", "list", "reload"}

Answer(r, response) == pending' = (pending \ {r}) \cup {[r EXCEPT !.resp = response]}

\* GET /conversations/?page=N is answered from the server's state at that moment
ServerAnswersList ==
  /\ \E r \in pending :
       /\ ~r.resp.ready
       /\ r.kind \in ListKinds \cup {"more"}
       /\ PageExists(serverList, r.page)
       /\ Answer(r, PageResponse(server, serverList, r.page))
  /\ UNCHANGED <<storeVars, pageVars, flagVars, transportVars, wsQueue, serverVars,
                 nPush, nCalls, observed, lastRequested, lastOp, emitted>>

\* GET /conversations/{id}/messages/
ServerAnswersDetail ==
  /\ \E r \in pending :
       /\ ~r.resp.ready
       /\ r.kind = "detail"
       /\ r.id \in Range(serverList)
       /\ Answer(r, DetailResponse(server, r.id))
  /\ UNCHANGED <<storeVars, pageVars, flagVars, transportVars, wsQueue, serverVars,
                 nPush, nCalls, observed, lastRequested, lastOp, emitted>>

\* POST /conversations/{id}/close/: an open conversation is closed and stamped
ServerAnswersClose ==
  /\ \E r \in pending, t \in Times :
       /\ ~r.resp.ready
       /\ r.kind = "close"
       /\ r.id \in Range(serverList)
       /\ server[r.id].status = "OPEN"
       /\ server' = [server EXCEPT ![r.id].status = "CLOSED", ![r.id].closed_at = t]
       /\ Answer(r, CloseResponse(t))
  /\ UNCHANGED <<storeVars, pageVars, flagVars, transportVars, wsQueue, serverList,
                 nMsgs, nPush, nCalls, observed, lastRequested, lastOp, emitted>>

\* POST /conversations/: the conversation is created and announced to connected clients
ServerAnswersCreate ==
  /\ \E r \in pending, id \in ConvIds \ Range(serverList) :
       /\ ~r.resp.ready
       /\ r.kind = "create"
       /\ serverList' = <<id>> \o serverList
       /\ Answer(r, CreateResponse)
       /\ IF Connected /\ nPush < MaxPush
          THEN Push(Event("new_conversation", Summary(server, id), NoMsg, ""))
          ELSE UNCHANGED <<nPush, wsQueue>>
  /\ UNCHANGED <<storeVars, pageVars, flagVars, transportVars, server, nMsgs, nCalls,
                 observed, lastRequested, lastOp, emitted>>

\* ---------------------------------------------------------------- push handlers
\* socket.onmessage -> handleMessage -> handleNewMessage
HandleNewMessage ==
  /\ Connected
  /\ wsQueue # << >>
  /\ Head(wsQueue).type = "new_message"
  /\ Head(wsQueue).message # NoMsg
  /\ LET message == Head(wsQueue).message
         isCurrent == isCurrentConversation(currentConversation, message) IN
     /\ currentConversation' = NewMessageView(currentConversation, message)
     /\ conversations' = NewMessageStore(conversations, message, isCurrent)
     /\ observed' = IF message.conversation \in ConvIds
                    THEN [observed EXCEPT ![message.conversation] = @ + 1]
                    ELSE observed
     /\ lastOp' = Op("new_message", message.conversation, message, 0)
  /\ wsQueue' = Tail(wsQueue)
  /\ emitted' = Quiet
  /\ UNCHANGED <<pageVars, flagVars, transportVars, pending, serverVars, nPush, nCalls,
                 lastRequested>>

\* socket.onmessage -> handleMessage -> addNewConversation
HandleNewConversation ==
  /\ Connected
  /\ wsQueue # << >>
  /\ Head(wsQueue).type = "new_conversation"
  /\ Head(wsQueue).conversation # NullConv
  /\ conversations' = addNewConversation(conversations, Head(wsQueue).conversation)
  /\ wsQueue' = Tail(wsQueue)
  /\ lastOp' = Op("new_conversation", Head(wsQueue).conversation.id, NoMsg, 0)
  /\ emitted' = Quiet
  /\ UNCHANGED <<currentConversation, pageVars, flagVars, transportVars, pending,
                 serverVars, nPush, nCalls, observed, lastRequested>>

\* getConversationDetail up to its await, on the Store convs: the flag, the
\* optimistic unread reset, existingConv read, the request issued
DetailCall(convs, conversationId) ==
  /\ conversationLoading' = TRUE
  /\ conversations' = resetUnreadCount(convs, conversationId)
  /\ lastRequested' = conversationId
  /\ pending' = pending \cup
       {Request(FreshN(pending), "detail", conversationId, 0,
                Existing(resetUnreadCount(convs, conversationId), conversationId))}

\* socket.onmessage -> handleMessage -> updateConversation
HandleConversationUpdated ==
  /\ Connected
  /\ wsQueue # << >>
  /\ Head(wsQueue).type = "conversation_updated"
  /\ Head(wsQueue).conversation # NullConv
  /\ LET conversation == Head(wsQueue).conversation IN
     /\ IF currentConversation.id # "" /\ currentConversation.id = conversation.id
        THEN /\ DetailCall(ReplaceEntry(conversations, conversation), conversation.id)
             /\ emitted' = [Quiet EXCEPT !.http = <<Http("detail", conversation.id, 0)>>]
        ELSE /\ conversations' = ReplaceEntry(conversations, conversation)
             /\ emitted' = Quiet
             /\ UNCHANGED <<conversationLoading, pending, lastRequested>>
     /\ lastOp' = Op("conversation_updated", conversation.id, NoMsg, 0)
  /\ wsQueue' = Tail(wsQueue)
  /\ UNCHANGED <<currentConversation, pageVars, loading, loadingMore, transportVars,
                 serverVars, nPush, nCalls, observed>>

\* mutant: a server error is taken for a failure of the connection
HandleError_mut ==
  /\ Connected
  /\ wsQueue # << >>
  /\ Head(wsQueue).type = "error"
  /\ Head(wsQueue).error # ""
  /\ wsQueue' = Tail(wsQueue)
  /\ connectionStatus' = FALSE
  /\ lastOp' = Op("error", "", NoMsg, 0)
  /\ emitted' = Err(Head(wsQueue).error)
  /\ UNCHANGED <<storeVars, pageVars, flagVars, socket, readyState, timers, pending,
                 serverVars, nPush, nCalls, observed, lastRequested>>

\* socket.onmessage -> handleMessage, case 'error'
HandleError ==
  /\ Connected
  /\ wsQueue # << >>
  /\ Head(wsQueue).type = "error"
  /\ Head(wsQueue).error # ""
  /\ wsQueue' = Tail(wsQueue)
  /\ lastOp' = Op("error", "", NoMsg, 0)
  /\ emitted' = Err(Head(wsQueue).error)
  /\ UNCHANGED <<storeVars, pageVars, flagVars, transportVars, pending, serverVars,
                 nPush, nCalls, observed, lastRequested>>

\* handleMessage's switch reaches one of its handlers for the event
Dispatched(event) ==
  \/ event.type = "new_message" /\ event.message # NoMsg
  \/ event.type = "new_conversation" /\ event.conversation # NullConv
  \/ event.type = "conversation_updated" /\ event.conversation # NullConv
  \/ event.type = "error" /\ event.error # ""

\* mutant: an event that reaches no handler is reported on the error channel
HandleIgnored_mut ==
  /\ Connected
  /\ wsQueue # << >>
  /\ ~Dispatched(Head(wsQueue))
  /\ wsQueue' = Tail(wsQueue)
  /\ lastOp' = Op("ignored", "", NoMsg, 0)
  /\ emitted' = Err("Unknown event")
  /\ UNCHANGED <<storeVars, pageVars, flagVars, transportVars, pending, serverVars,
                 nPush, nCalls, observed, lastRequested>>

\* socket.onmessage -> handleMessage: no case matches, or the payload test fails
HandleIgnored ==
  /\ Connected
  /\ wsQueue # << >>
  /\ ~Dispatched(Head(wsQueue))
  /\ wsQueue' = Tail(wsQueue)
  /\ lastOp' = Op("ignored", "", NoMsg, 0)
  /\ emitted' = Quiet
  /\ UNCHANGED <<storeVars, pageVars, flagVars, transportVars, pending, serverVars,
                 nPush, nCalls, observed, lastRequested>>

\* ---------------------------------------------------------------- calls of the UI
StoreIds == {conversations[i].id : i \in 1..Len(conversations)}

\* getConversations() up to its await (onRefresh)
GetConversations ==
  /\ nCalls < MaxCalls
  /\ nCalls' = nCalls + 1
  /\ loading' = TRUE
  /\ pending' = pending \cup {Request(FreshN(pending), "list", "", 1, NoExisting)}
  /\ lastOp' = Op("getConversations", "", NoMsg, FreshN(pending))
  /\ emitted' = [Quiet EXCEPT !.http = <<Http("list", "", 1)>>]
  /\ UNCHANGED <<storeVars, pageVars, conversationLoading, loadingMore, transportVars,
                 wsQueue, serverVars, nPush, observed, lastRequested>>

\* getConversationDetail(id) up to its await (onConversationSelected: a listed one)
GetConversationDetail ==
  /\ nCalls < MaxCalls
  /\ nCalls' = nCalls + 1
  /\ \E id \in StoreIds :
       /\ DetailCall(conversations, id)
       /\ lastOp' = Op("getConversationDetail", id, NoMsg, FreshN(pending))
       /\ emitted' = [Quiet EXCEPT !.http = <<Http("detail", id, 0)>>]
  /\ UNCHANGED <<currentConversation, pageVars, loading, loadingMore, transportVars,
                 wsQueue, serverVars, nPush, observed>>

\* closeConversation(id) up to its await, for a listed conversation once one is open
CloseConversation ==
  /\ nCalls < MaxCalls
  /\ nCalls' = nCalls + 1
  /\ currentConversation.id # ""
  /\ \E id \in StoreIds \cup {currentConversation.id} :
       /\ pending' = pending \cup {Request(FreshN(pending), "close", id, 0, NoExisting)}
       /\ lastOp' = Op("closeConversation", id, NoMsg, FreshN(pending))
       /\ emitted' = [Quiet EXCEPT !.http = <<Http("close", id, 0)>>]
  /\ loading' = TRUE
  /\ UNCHANGED <<storeVars, pageVars, conversationLoading, loadingMore, transportVars,
                 wsQueue, serverVars, nPush, observed, lastRequested>>

\* mutant: the loading flag does not gate re-entry
LoadMoreBlocked_mut(hasMore, isLoadingMore) == ~hasMore

\* !this.hasMorePages || this.loadingMoreSubject.value
LoadMoreBlocked(hasMore, isLoadingMore) == ~hasMore \/ isLoadingMore

\* loadMoreConversations() up to its await, or its early return
LoadMoreConversations ==
  /\ nCalls < MaxCalls
  /\ nCalls' = nCalls + 1
  /\ IF LoadMoreBlocked(hasMorePages, loadingMore)
     THEN /\ lastOp' = Op("loadMoreConversations", "", NoMsg, 0)
          /\ emitted' = Quiet
          /\ UNCHANGED <<currentPage, loadingMore, pending>>
     ELSE /\ loadingMore' = TRUE
          /\ currentPage' = currentPage + 1
          /\ pending' = pending \cup
               {Request(FreshN(pending), "more", "", currentPage + 1, NoExisting)}
          /\ lastOp' = Op("loadMoreConversations", "", NoMsg, FreshN(pending))
          /\ emitted' = [Quiet EXCEPT !.http = <<Http("more", "", currentPage + 1)>>]
  /\ UNCHANGED <<storeVars, hasMorePages, loading, conversationLoading, transportVars,
                 wsQueue, serverVars, nPush, observed, lastRequested>>

\* createConversation(content, contactId) up to its first await
CreateConversation ==
  /\ nCalls < MaxCalls
  /\ nCalls' = nCalls + 1
  /\ loading' = TRUE
  /\ pending' = pending \cup {Request(FreshN(pending), "create", "", 0, NoExisting)}
  /\ lastOp' = Op("createConversation", "", NoMsg, FreshN(pending))
  /\ emitted' = [Quiet EXCEPT !.http = <<Http("create", "", 0)>>]
  /\ UNCHANGED <<storeVars, pageVars, conversationLoading, loadingMore, transportVars,
                 wsQueue, serverVars, nPush, observed, lastRequested>>

\* mutant: a command submitted without an open socket is sent all the same
sendMessage_mut(conversationId, content, isInternal, hasSocket, state) ==
  IF IsBlank(content) THEN Quiet
  ELSE [Quiet EXCEPT !.sent = <<[type |-> "send_message",
                                 conversation_id |-> conversationId,
                                 content |-> Trim(content),
                                 is_internal |-> isInternal]>>]

\* what sendMessage emits: nothing for blank content, an error when the socket
\* is absent or not OPEN, else the command with the content trimmed
sendMessage(conversationId, content, isInternal, hasSocket, state) ==
  IF IsBlank(content) THEN Quiet
  ELSE IF ~hasSocket \/ state # "OPEN" THEN Err("WebSocket not connected")
  ELSE [Quiet EXCEPT !.sent = <<[type |-> "send_message",
                                 conversation_id |-> conversationId,
                                 content |-> Trim(content),
                                 is_internal |-> isInternal]>>]

\* sendMessage(conversationId, content, isInternal)
SendMessage ==
  /\ nCalls < MaxCalls
  /\ nCalls' = nCalls + 1
  /\ \E id \in ConvIds, content \in Contents, isInternal \in BOOLEAN :
       /\ emitted' = sendMessage(id, content, isInternal, socket, readyState)
       /\ lastOp' = [Op("sendMessage", id, NoMsg, 0) EXCEPT !.content = content,
                                                          !.isInternal = isInternal]
  /\ UNCHANGED <<storeVars, pageVars, flagVars, transportVars, pending, wsQueue,
                 serverVars, nPush, observed, lastRequested>>

\* ---------------------------------------------------------------- HTTP continuations
\* a request resolves with the server's answer, or rejects (at any moment)
Resolves(r, kind) == r \in pending /\ r.kind = kind /\ r.resp.ready
Rejects(r, kind) == r \in pending /\ r.kind = kind

\* initialize(): loadInitialData() resolved, then connect()
InitOk ==
  /\ \E r \in pending, throws \in BOOLEAN :
       /\ Resolves(r, "init")
       /\ pending' = pending \ {r}
       /\ hasMorePages' = r.resp.next
       /\ conversations' = WithUnreadZero(r.resp.results)
       /\ connect(throws, timers)
       /\ lastOp' = Op("initOk", "", NoMsg, r.n)
  /\ loading' = FALSE
  /\ emitted' = Quiet
  /\ UNCHANGED <<currentConversation, currentPage, conversationLoading, loadingMore,
                 wsQueue, serverVars, nPush, nCalls, observed, lastRequested>>

InitFail ==
  /\ \E r \in pending, throws \in BOOLEAN :
       /\ Rejects(r, "init")
       /\ pending' = pending \ {r}
       /\ connect(throws, timers)
       /\ lastOp' = Op("initFail", "", NoMsg, r.n)
  /\ loading' = FALSE
  /\ emitted' = Err("Failed to load conversations")
  /\ UNCHANGED <<storeVars, pageVars, conversationLoading, loadingMore, wsQueue,
                 serverVars, nPush, nCalls, observed, lastRequested>>

\* getConversations(): the Store replaced by the first page as the server sent it
ListOk ==
  /\ \E r \in pending :
       /\ Resolves(r, "list")
       /\ pending' = pending \ {r}
       /\ conversations' = r.resp.results
       /\ lastOp' = Op("listOk", "", NoMsg, r.n)
  /\ loading' = FALSE
  /\ emitted' = Quiet
  /\ UNCHANGED <<currentConversation, pageVars, conversationLoading, loadingMore,
                 transportVars, wsQueue, serverVars, nPush, nCalls, observed, lastRequested>>

ListFail ==
  /\ \E r \in pending :
       /\ Rejects(r, "list")
       /\ pending' = pending \ {r}
       /\ lastOp' = Op("listFail", "", NoMsg, r.n)
  /\ loading' = FALSE
  /\ emitted' = Err("Failed to refresh conversations")
  /\ UNCHANGED <<storeVars, pageVars, conversationLoading, loadingMore, transportVars,
                 wsQueue, serverVars, nPush, nCalls, observed, lastRequested>>

\* getConversationDetail(): the View built from the response and existingConv
DetailOk ==
  /\ \E r \in pending :
       /\ Resolves(r, "detail")
       /\ pending' = pending \ {r}
       /\ currentConversation' = DetailConversation(r.id, r.existing, r.resp)
       /\ lastOp' = Op("detailOk", r.id, NoMsg, r.n)
  /\ conversationLoading' = FALSE
  /\ emitted' = Quiet
  /\ UNCHANGED <<conversations, pageVars, loading, loadingMore, transportVars, wsQueue,
                 serverVars, nPush, nCalls, observed, lastRequested>>

\* mutant: the failure path leaves conversationLoading as it is
DetailFail_mut ==
  /\ \E r \in pending :
       /\ Rejects(r, "detail")
       /\ pending' = pending \ {r}
       /\ lastOp' = Op("detailFail", r.id, NoMsg, r.n)
  /\ emitted' = Err("Failed to load conversation details")
  /\ UNCHANGED <<storeVars, pageVars, flagVars, transportVars, wsQueue,
                 serverVars, nPush, nCalls, observed, lastRequested>>

DetailFail ==
  /\ \E r \in pending :
       /\ Rejects(r, "detail")
       /\ pending' = pending \ {r}
       /\ lastOp' = Op("detailFail", r.id, NoMsg, r.n)
  /\ conversationLoading' = FALSE
  /\ emitted' = Err("Failed to load conversation details")
  /\ UNCHANGED <<storeVars, pageVars, loading, loadingMore, transportVars, wsQueue,
                 serverVars, nPush, nCalls, observed, lastRequested>>

\* closeConversation(): Store and View set CLOSED, the success notification
CloseOk ==
  /\ \E r \in pending :
       /\ Resolves(r, "close")
       /\ pending' = pending \ {r}
       /\ conversations' = CloseStore(conversations, r.id, r.resp.closed_at)
       /\ currentConversation' = CloseView(currentConversation, r.id, r.resp.closed_at)
       /\ lastOp' = Op("closeOk", r.id, NoMsg, r.n)
  /\ loading' = FALSE
  /\ emitted' = [Quiet EXCEPT !.success = <<"Conversa fechada com sucesso">>]
  /\ UNCHANGED <<pageVars, conversationLoading, loadingMore, transportVars, wsQueue,
                 serverVars, nPush, nCalls, observed, lastRequested>>

\* mutant: the failure path marks the conversation CLOSED in the Store
CloseFail_mut ==
  /\ \E r \in pending :
       /\ Rejects(r, "close")
       /\ pending' = pending \ {r}
       /\ conversations' = CloseStore(conversations, r.id, 1)
       /\ lastOp' = Op("closeFail", r.id, NoMsg, r.n)
  /\ loading' = FALSE
  /\ emitted' = Err("Failed to close conversation")
  /\ UNCHANGED <<currentConversation, pageVars, conversationLoading, loadingMore,
                 transportVars, wsQueue, serverVars, nPush, nCalls, observed,
                 lastRequested>>

CloseFail ==
  /\ \E r \in pending :
       /\ Rejects(r, "close")
       /\ pending' = pending \ {r}
       /\ lastOp' = Op("closeFail", r.id, NoMsg, r.n)
  /\ loading' = FALSE
  /\ emitted' = Err("Failed to close conversation")
  /\ UNCHANGED <<storeVars, pageVars, conversationLoading, loadingMore, transportVars,
                 wsQueue, serverVars, nPush, nCalls, observed, lastRequested>>

\* the page counter after a failed page fetch
PageAfterFailure(page) == page - 1

\* loadMoreConversations(): the page appended to the Store
MoreOk ==
  /\ \E r \in pending :
       /\ Resolves(r, "more")
       /\ pending' = pending \ {r}
       /\ hasMorePages' = r.resp.next
       /\ conversations' = conversations \o WithUnreadZero(r.resp.results)
       /\ lastOp' = Op("moreOk", "", NoMsg, r.n)
  /\ loadingMore' = FALSE
  /\ emitted' = Quiet
  /\ UNCHANGED <<currentConversation, currentPage, loading, conversationLoading,
                 transportVars, wsQueue, serverVars, nPush, nCalls, observed, lastRequested>>

MoreFail ==
  /\ \E r \in pending :
       /\ Rejects(r, "more")
       /\ pending' = pending \ {r}
       /\ lastOp' = Op("moreFail", "", NoMsg, r.n)
  /\ currentPage' = PageAfterFailure(currentPage)
  /\ loadingMore' = FALSE
  /\ emitted' = Err("Failed to load more conversations")
  /\ UNCHANGED <<storeVars, hasMorePages, loading, conversationLoading, transportVars,
                 wsQueue, serverVars, nPush, nCalls, observed, lastRequested>>

\* createConversation(): the POST resolved, loadInitialData() runs up to its await
CreateOk ==
  /\ \E r \in pending :
       /\ Resolves(r, "create")
       /\ loading' = TRUE
       /\ currentPage' = 1
       /\ hasMorePages' = TRUE
       /\ pending' = (pending \ {r}) \cup {Request(r.n, "reload", "", 1, NoExisting)}
       /\ lastOp' = Op("createOk", "", NoMsg, r.n)
  /\ emitted' = [Quiet EXCEPT !.http = <<Http("reload", "", 1)>>]
  /\ UNCHANGED <<storeVars, conversationLoading, loadingMore, transportVars, wsQueue,
                 serverVars, nPush, nCalls, observed, lastRequested>>

CreateFail ==
  /\ \E r \in pending :
       /\ Rejects(r, "create")
       /\ pending' = pending \ {r}
       /\ lastOp' = Op("createFail", "", NoMsg, r.n)
  /\ loading' = FALSE
  /\ emitted' = Err("Failed to create conversation")
  /\ UNCHANGED <<storeVars, pageVars, conversationLoading, loadingMore, transportVars,
                 wsQueue, serverVars, nPush, nCalls, observed, lastRequested>>

\* createConversation(): its loadInitialData() resolved, then the success notification
ReloadOk ==
  /\ \E r \in pending :
       /\ Resolves(r, "reload")
       /\ pending' = pending \ {r}
       /\ hasMorePages' = r.resp.next
       /\ conversations' = WithUnreadZero(r.resp.results)
       /\ lastOp' = Op("reloadOk", "", NoMsg, r.n)
  /\ loading' = FALSE
  /\ emitted' = [Quiet EXCEPT !.success = <<"Conversa criada com sucesso">>]
  /\ UNCHANGED <<currentConversation, currentPage, conversationLoading, loadingMore,
                 transportVars, wsQueue, serverVars, nPush, nCalls, observed, lastRequested>>

\* loadInitialData() catches the failure itself; createConversation still succeeds
ReloadFail ==
  /\ \E r \in pending :
       /\ Rejects(r, "reload")
       /\ pending' = pending \ {r}
       /\ lastOp' = Op("reloadFail", "", NoMsg, r.n)
  /\ loading' = FALSE
  /\ emitted' = [Quiet EXCEPT !.errors = <<"Failed to load conversations">>,
                              !.success = <<"Conversa criada com sucesso">>]
  /\ UNCHANGED <<storeVars, pageVars, conversationLoading, loadingMore, transportVars,
                 wsQueue, serverVars, nPush, nCalls, observed, lastRequested>>

\* ---------------------------------------------------------------- specification
Next ==
  \/ SocketOpen \/ SocketError \/ SocketClose \/ TimerFires \/ Disconnect
  \/ ServerNewMessage \/ ServerNewMessageById \/ ServerRedelivers \/ ServerUpdated
  \/ ServerNewConversation \/ ServerError \/ ServerMalformed \/ ServerEdits
  \/ ServerAnswersList \/ ServerAnswersDetail \/ ServerAnswersClose \/ ServerAnswersCreate
  \/ HandleNewMessage \/ HandleNewConversation \/ HandleConversationUpdated \/ HandleError
  \/ HandleIgnored
  \/ GetConversations \/ GetConversationDetail \/ CloseConversation
  \/ LoadMoreConversations \/ CreateConversation \/ SendMessage
  \/ InitOk \/ InitFail \/ ListOk \/ ListFail \/ DetailOk \/ DetailFail
  \/ CloseOk \/ CloseFail \/ MoreOk \/ MoreFail
  \/ CreateOk \/ CreateFail \/ ReloadOk \/ ReloadFail

Spec == Init /\ [][Next]_vars

\* the reconciliation engine on a connection that stays up
NextStore ==
  \/ SocketOpen \/ TimerFires
  \/ ServerNewMessage \/ ServerRedelivers \/ ServerUpdated \/ ServerNewConversation
  \/ ServerAnswersList \/ ServerAnswersDetail \/ ServerAnswersClose \/ ServerAnswersCreate
  \/ HandleNewMessage \/ HandleNewConversation \/ HandleConversationUpdated
  \/ GetConversations \/ GetConversationDetail \/ CloseConversation
  \/ LoadMoreConversations \/ CreateConversation
  \/ InitOk \/ InitFail \/ ListOk \/ ListFail \/ DetailOk \/ DetailFail
  \/ CloseOk \/ CloseFail \/ MoreOk \/ MoreFail
  \/ CreateOk \/ CreateFail \/ ReloadOk \/ ReloadFail

SpecStore == Init /\ [][NextStore]_vars

\* the push transport and the command sender, with one conversation to open
NextTransport ==
  \/ SocketOpen \/ SocketError \/ SocketClose \/ TimerFires \/ Disconnect
  \/ ServerNewMessage \/ ServerError
  \/ ServerAnswersList \/ ServerAnswersDetail
  \/ HandleNewMessage \/ HandleError
  \/ GetConversationDetail \/ SendMessage
  \/ InitOk \/ InitFail \/ DetailOk \/ DetailFail

SpecTransport == Init /\ [][NextTransport]_vars

\* new_message events of both payload shapes, with one conversation to open
NextShapes ==
  \/ SocketOpen \/ TimerFires
  \/ ServerNewMessage \/ ServerNewMessageById
  \/ ServerAnswersList \/ ServerAnswersDetail
  \/ HandleNewMessage
  \/ GetConversationDetail
  \/ InitOk \/ InitFail \/ DetailOk \/ DetailFail

SpecShapes == Init /\ [][NextShapes]_vars

\* push events of every kind, well-formed or not, with one conversation to open
NextEvents ==
  \/ SocketOpen \/ SocketClose \/ TimerFires
  \/ ServerNewMessage \/ ServerError \/ ServerMalformed
  \/ ServerAnswersList \/ ServerAnswersDetail
  \/ HandleNewMessage \/ HandleError \/ HandleIgnored
  \/ GetConversationDetail
  \/ InitOk \/ InitFail \/ DetailOk \/ DetailFail

SpecEvents == Init /\ [][NextEvents]_vars

\* activation of a conversation whose contact and assigned user change at the
\* server, with new messages
NextDetail ==
  \/ SocketOpen \/ TimerFires
  \/ ServerNewMessage \/ ServerEdits
  \/ ServerAnswersList \/ ServerAnswersDetail
  \/ HandleNewMessage
  \/ GetConversationDetail
  \/ InitOk \/ InitFail \/ DetailOk \/ DetailFail

SpecDetail == Init /\ [][NextDetail]_vars

\* a request in flight resolves or rejects: the continuation of some await
Settle ==
  \/ InitOk \/ InitFail \/ ListOk \/ ListFail \/ DetailOk \/ DetailFail
  \/ CloseOk \/ CloseFail \/ MoreOk \/ MoreFail
  \/ CreateOk \/ CreateFail \/ ReloadOk \/ ReloadFail

\* the HTTP operations without push events; every request in flight is settled
NextRequests ==
  \/ TimerFires
  \/ ServerNewConversation
  \/ ServerAnswersList \/ ServerAnswersDetail \/ ServerAnswersClose \/ ServerAnswersCreate
  \/ GetConversations \/ GetConversationDetail \/ CloseConversation
  \/ LoadMoreConversations \/ CreateConversation
  \/ Settle

SpecRequests == Init /\ [][NextRequests]_vars /\ WF_vars(Settle)

\* ---------------------------------------------------------------- reading the state
StoreEntries(id) == {i \in 1..Len(conversations) : conversations[i].id = id}

NoDuplicateIds(messages) ==
  \A i, j \in 1..Len(messages) : i # j => messages[i].id # messages[j].id

DetailPending(id) == \E r \in pending : r.kind = "detail" /\ r.id = id

\* the step is the handling of the push event at the head of the queue
HandlesPush(type) ==
  /\ wsQueue # << >>
  /\ Head(wsQueue).type = type
  /\ wsQueue' = Tail(wsQueue)
  /\ lastOp'.op = type

\* the step is a call of the UI
IsCall(op) == nCalls' = nCalls + 1 /\ lastOp'.op = op

\* the step is the continuation of request r
Continues(r, op) ==
  /\ r \in pending
  /\ r \notin pending'
  /\ lastOp'.op = op
  /\ lastOp'.n = r.n

\* ---------------------------------------------------------------- C1
\* C1: whenever the View holds a conversation, every Store entry with that id
\* has unread_count 0.
C1_ActiveUnreadZero ==
  currentConversation.id # "" =>
    \A i \in StoreEntries(currentConversation.id) :
      Num(conversations[i].unread_count) = 0

\* ---------------------------------------------------------------- C2
\* C2: no message list, of the View or of a Store entry, holds a message id twice.
C2_NoDuplicateMessageIds ==
  /\ NoDuplicateIds(currentConversation.messages)
  /\ \A i \in 1..Len(conversations) : NoDuplicateIds(conversations[i].messages)

\* ---------------------------------------------------------------- C3
UnreadDelta(message, isCurrent) ==
  IF message.direction = "RECEIVED" /\ ~isCurrent THEN 1 ELSE 0

\* C3: handling new_message(m) raises the unread_count of the Store entries of
\* m's conversation by 1 when m is RECEIVED and that conversation is not the
\* active one, and by 0 otherwise (so a count of 0 stays 0).
C3_UnreadChange ==
  [][HandlesPush("new_message") =>
       LET m == Head(wsQueue).message IN
       /\ Len(conversations') = Len(conversations)
       /\ \A i \in StoreEntries(m.conversation) :
            Num(conversations'[i].unread_count) =
              Num(conversations[i].unread_count)
                + UnreadDelta(m, currentConversation.id = m.conversation)]_vars

\* a RECEIVED message for a listed conversation that is not the active one was
\* handled while another conversation was active, and counted
C3_Witness ==
  /\ lastOp.op = "new_message"
  /\ lastOp.msg.direction = "RECEIVED"
  /\ currentConversation.id # ""
  /\ currentConversation.id # lastOp.id
  /\ \E i \in StoreEntries(lastOp.id) : conversations[i].unread_count >= 1

\* ---------------------------------------------------------------- C4
\* C4 as stated: the message_count of a Store entry equals the number of
\* new_message events handled for its id.
C4_CountEqualsObserved ==
  \A i \in 1..Len(conversations) :
    Num(conversations[i].message_count) = observed[conversations[i].id]

\* C4 amended: each new_message event raises the message_count of the Store
\* entries of its conversation by exactly 1, a repeated delivery included, and
\* leaves every other entry's message_count as it was.
C4_CountChange ==
  [][HandlesPush("new_message") =>
       LET m == Head(wsQueue).message IN
       /\ Len(conversations') = Len(conversations)
       /\ \A i \in 1..Len(conversations) :
            Num(conversations'[i].message_count) =
              Num(conversations[i].message_count)
                + (IF conversations[i].id = m.conversation THEN 1 ELSE 0)]_vars

\* the same message was handled twice for a listed conversation and counted twice
C4_Witness ==
  /\ lastOp.op = "new_message"
  /\ \E i \in StoreEntries(lastOp.id) :
       /\ ~NoDuplicateIds(conversations[i].messages)
       /\ conversations[i].message_count >= 2

\* ---------------------------------------------------------------- C5
\* C5: from the call of getConversationDetail(X) until its fetch resolves, and
\* right after it resolves or rejects, the Store entries of X have unread_count 0.
C5_UnreadZeroThroughActivation ==
  \A id \in ConvIds :
    (DetailPending(id) \/ (lastOp.op \in {"detailOk", "detailFail"} /\ lastOp.id = id)) =>
      \A i \in StoreEntries(id) : Num(conversations[i].unread_count) = 0

\* ---------------------------------------------------------------- C6
\* C6: when closeConversation(X) resolves, the Store entries of X are CLOSED
\* with the closed_at of the response, the View gets the same status and
\* closed_at exactly when it holds X and is otherwise untouched, and one
\* success notification and no error is emitted.
C6_CloseSuccess ==
  [][\A r \in pending :
       (Continues(r, "closeOk") /\ r.resp.ready) =>
         /\ Len(conversations') = Len(conversations)
         /\ \A i \in 1..Len(conversations) :
              IF conversations[i].id = r.id
              THEN /\ conversations'[i].status = "CLOSED"
                   /\ conversations'[i].closed_at = r.resp.closed_at
              ELSE conversations'[i] = conversations[i]
         /\ IF currentConversation.id = r.id
            THEN /\ currentConversation'.id = r.id
                 /\ currentConversation'.status = "CLOSED"
                 /\ currentConversation'.closed_at = r.resp.closed_at
                 /\ currentConversation'.messages = currentConversation.messages
            ELSE currentConversation' = currentConversation
         /\ emitted'.success = <<"Conversa fechada com sucesso">>
         /\ emitted'.errors = << >>]_vars

\* a listed conversation was closed while the View held another, open, one
C6_Witness ==
  /\ lastOp.op = "closeOk"
  /\ currentConversation.id \notin {"", lastOp.id}
  /\ currentConversation.status = "OPEN"
  /\ \E i \in StoreEntries(lastOp.id) :
       conversations[i].status = "CLOSED" /\ conversations[i].closed_at = MaxTime
  /\ emitted.success # << >>

\* ---------------------------------------------------------------- C7
\* C7: a conversation that is CLOSED in the Store stays CLOSED in the Store, and
\* one that is CLOSED in the View stays CLOSED while the View holds it.
C7_StatusMonotonic ==
  [][/\ \A i \in 1..Len(conversations) :
          conversations[i].status = "CLOSED" =>
            \A j \in 1..Len(conversations') :
              conversations'[j].id = conversations[i].id =>
                conversations'[j].status = "CLOSED"
     /\ (currentConversation.status = "CLOSED"
           /\ currentConversation'.id = currentConversation.id) =>
          currentConversation'.status = "CLOSED"]_vars

\* ---------------------------------------------------------------- C8
\* C8: when the page fetch of loadMoreConversations fails, currentPage is back
\* at its value before the call (one less than the page requested), the Store
\* is untouched and the loading flag is down, so that the next call asks for
\* the same page.
C8_FailedPageRollsBack ==
  [][\A r \in pending :
       Continues(r, "moreFail") =>
         /\ currentPage' = r.page - 1
         /\ conversations' = conversations
         /\ loadingMore' = FALSE]_vars

\* ---------------------------------------------------------------- C9
MorePending == \E r \in pending : r.kind = "more"

\* C9: at most one page request of loadMoreConversations is in flight, and a
\* call made while one is in flight or while hasMorePages is false issues no
\* request and leaves currentPage, hasMorePages, the loadingMore flag and the
\* Store as they were.
C9_OneLoadMoreInFlight ==
  /\ [](Cardinality({r \in pending : r.kind = "more"}) <= 1)
  /\ [][(IsCall("loadMoreConversations") /\ (MorePending \/ ~hasMorePages)) =>
          /\ pending' = pending
          /\ emitted'.http = << >>
          /\ UNCHANGED <<currentPage, hasMorePages, loadingMore, conversations>>]_vars

\* a call was suppressed because a page request was in flight
C9_Witness ==
  /\ lastOp.op = "loadMoreConversations"
  /\ emitted.http = << >>
  /\ hasMorePages
  /\ MorePending

\* ---------------------------------------------------------------- C10
AllSpaces(content) == \A i \in 1..Len(content) : content[i] = " "

\* C10: sendMessage with empty or whitespace-only content sends nothing, emits
\* no notification and leaves Store, View and the requests in flight unchanged,
\* whatever the state of the socket.
C10_BlankSendIsNoOp ==
  [][(IsCall("sendMessage") /\ AllSpaces(lastOp'.content)) =>
       /\ emitted' = Quiet
       /\ UNCHANGED <<storeVars, pending, wsQueue>>]_vars

\* whitespace-only content was submitted on an open socket with a conversation open
C10_Witness ==
  /\ lastOp.op = "sendMessage"
  /\ lastOp.content = <<" ", " ">>
  /\ socket
  /\ readyState = "OPEN"
  /\ currentConversation.id # ""
  /\ emitted = Quiet

\* ---------------------------------------------------------------- C11
\* a step of the client (the server's steps leave these three alone)
ClientStep == <<lastOp', emitted', nCalls'>> # <<lastOp, emitted, nCalls>>

NonSpaces(content) == {i \in 1..Len(content) : content[i] # " "}

\* content without its leading and trailing whitespace
Stripped(content) ==
  IF NonSpaces(content) = {} THEN << >>
  ELSE LET first == CHOOSE i \in NonSpaces(content) :
                      \A j \in NonSpaces(content) : i <= j
           last == CHOOSE i \in NonSpaces(content) :
                     \A j \in NonSpaces(content) : j <= i
       IN SubSeq(content, first, last)

\* the command of the sendMessage call recorded in op
Command(op) ==
  [type |-> "send_message", conversation_id |-> op.id,
   content |-> Stripped(op.content), is_internal |-> op.isInternal]

\* C11: sendMessage with non-blank content while the socket is absent or not
\* OPEN emits exactly one "WebSocket not connected" error and sends nothing;
\* the command is not kept: a command leaves the client only in a sendMessage
\* step taken on an OPEN socket, and it is the command of that very call.
C11_NotConnectedSendDropped ==
  [][/\ (/\ IsCall("sendMessage")
         /\ ~AllSpaces(lastOp'.content)
         /\ (~socket \/ readyState # "OPEN"))
        => (/\ emitted'.errors = <<"WebSocket not connected">>
            /\ emitted'.sent = << >>
            /\ emitted'.success = << >>
            /\ UNCHANGED <<storeVars, pending, wsQueue, transportVars>>)
     /\ (ClientStep /\ emitted'.sent # << >>)
        => (/\ IsCall("sendMessage")
            /\ socket
            /\ readyState = "OPEN"
            /\ emitted'.sent = <<Command(lastOp')>>)]_vars

\* a non-blank message was submitted after the socket closed, a reconnect pending
C11_Witness ==
  /\ lastOp.op = "sendMessage"
  /\ ~AllSpaces(lastOp.content)
  /\ readyState = "CLOSED"
  /\ timers > 0
  /\ emitted.errors = <<"WebSocket not connected">>
  /\ emitted.sent = << >>

\* ---------------------------------------------------------------- C12
ViewMessages == Range(currentConversation.messages)

\* the step is a sendMessage call with non-blank content on an OPEN socket
ConnectedSend ==
  /\ IsCall("sendMessage")
  /\ ~AllSpaces(lastOp'.content)
  /\ socket
  /\ readyState = "OPEN"

\* sendMessage on an OPEN socket sends the one command and touches nothing else
SendFrame ==
  ConnectedSend =>
    /\ emitted'.sent = <<Command(lastOp')>>
    /\ emitted'.errors = << >>
    /\ UNCHANGED <<storeVars, pending, wsQueue>>

\* message m is put into the View's list by the handling of its new_message event
EntersByPush(m) == HandlesPush("new_message") /\ Head(wsQueue).message = m

\* message m is put into the View's list by a detail response that carries it
EntersByDetail(m) ==
  \E r \in pending : Continues(r, "detailOk") /\ m \in Range(r.resp.messages)

\* C12 as stated: sendMessage on an OPEN socket sends exactly one command with
\* the trimmed content and leaves Store and View unchanged, and a SENT message
\* enters the View's message list only when its new_message event is handled.
C12_SentOnlyByPush ==
  [][/\ SendFrame
     /\ \A m \in ViewMessages' \ ViewMessages :
          m.direction = "SENT" => EntersByPush(m)]_vars

\* C12 amended: sendMessage on an OPEN socket sends exactly one command with
\* the trimmed content and leaves Store and View unchanged; a SENT message
\* enters the View's message list only when its new_message event is handled
\* or when a detail response that carries it builds the View.
C12_SendFrame ==
  [][/\ SendFrame
     /\ \A m \in ViewMessages' \ ViewMessages :
          m.direction = "SENT" => (EntersByPush(m) \/ EntersByDetail(m))]_vars

\* a padded message was sent on an OPEN socket while a conversation was open
C12_Witness ==
  /\ lastOp.op = "sendMessage"
  /\ lastOp.content = <<" ", "h", " ">>
  /\ emitted.sent # << >>
  /\ emitted.sent[1].content = <<"h">>
  /\ socket
  /\ readyState = "OPEN"
  /\ currentConversation.id # ""

\* ---------------------------------------------------------------- C13
\* the step is the handling of the socket's close event
HandlesClose == readyState # "CLOSED" /\ readyState' = "CLOSED" /\ lastOp'.op = "onclose"

\* the step is the handling of the open event of a connecting socket
HandlesOpen == readyState = "CONNECTING" /\ readyState' = "OPEN" /\ lastOp'.op = "onopen"

\* the step is a reconnect timer firing whose connect() created a socket
TimerConnects ==
  /\ timers > 0
  /\ timers' = timers - 1
  /\ readyState' = "CONNECTING"
  /\ socket'
  /\ lastOp'.op = "timer"

\* C13: the step that handles the socket's close sets the connection status to
\* false; the status is false as long as the socket is closed; a closed socket
\* is left only by a reconnect timer firing whose connect() creates a new
\* connection; and the status turns true only in the step that handles the open
\* event of a connecting socket.
C13_StatusAcrossClose ==
  [][/\ HandlesClose => ~connectionStatus'
     /\ readyState = "CLOSED" => ~connectionStatus
     /\ (readyState = "CLOSED" /\ readyState' # "CLOSED") => TimerConnects
     /\ (~connectionStatus /\ connectionStatus') => HandlesOpen]_vars

\* the connection is open again after a close that lost a pushed event: no
\* event is queued or was handled, and the open event was the last client step
C13_Witness ==
  /\ lastOp.op = "onopen"
  /\ connectionStatus
  /\ readyState = "OPEN"
  /\ nPush > 0
  /\ wsQueue = << >>

\* ---------------------------------------------------------------- C14
\* C14: a reconnect is scheduled by every close event, by every error event
\* and by every connect() that throws: when the last step of the client was a
\* close or error handler, or a timer or initialize step whose connect() left
\* no connecting socket, a reconnect timer is pending.
C14_ReconnectScheduled ==
  /\ lastOp.op \in {"onclose", "onerror"} => timers > 0
  /\ (lastOp.op \in {"timer", "initOk", "initFail"} /\ readyState # "CONNECTING")
       => timers > 0

\* ---------------------------------------------------------------- C15
\* a socket of the service is alive
Alive == readyState \in {"CONNECTING", "OPEN", "CLOSING"}

\* the step is a connect() that created a socket, from the timer or initialize
ConnectCreates ==
  /\ readyState' = "CONNECTING"
  /\ socket'
  /\ \/ timers > 0 /\ timers' = timers - 1
     \/ \E r \in pending : r.kind = "init" /\ r \notin pending'

\* no timer is pending while a socket is alive, and at most one is pending
OneTimerOrSocket == timers <= 1 /\ (timers > 0 => ~Alive)

\* C15: at most one reconnect timer is pending, none while a socket is
\* connecting, open or closing, and connect() creates a socket only when no
\* earlier socket is alive; so at most one socket is CONNECTING or OPEN.
C15_OneConnection ==
  /\ []OneTimerOrSocket
  /\ [][ConnectCreates => ~Alive]_vars

\* a reconnect timer created a further socket after an earlier one, on which
\* the server had pushed an event, delivered its close event
C15_Witness ==
  /\ lastOp.op = "timer"
  /\ readyState = "CONNECTING"
  /\ socket
  /\ timers = 0
  /\ nPush > 0

\* ---------------------------------------------------------------- C16
\* C16: the connection status is true exactly when the service holds a socket
\* whose state is OPEN.
C16_StatusReflectsSocket == connectionStatus <=> (socket /\ readyState = "OPEN")

\* ---------------------------------------------------------------- C17
\* C17: a conversation id that is in the Store is in the Store after every step.
C17_NeverLocallyDeleted ==
  [][\A id \in ConvIds : StoreEntries(id) # {} => StoreEntries(id)' # {}]_vars

\* ---------------------------------------------------------------- C18
\* C18: the View holds at most one conversation, and when it holds one the
\* Store has an entry with the View's id.
C18_ActiveIsListed ==
  currentConversation.id # "" => StoreEntries(currentConversation.id) # {}

\* ---------------------------------------------------------------- C19
\* id has exactly one Store entry before and after the step
ListedOnce(id) ==
  /\ Cardinality(StoreEntries(id)) = 1
  /\ Cardinality(StoreEntries(id)') = 1

\* C19: no step lowers the message_count of a conversation's Store entry.
C19_CountNeverLowered ==
  [][\A id \in ConvIds :
       ListedOnce(id) =>
         Num(Find(conversations', id).message_count)
           >= Num(Find(conversations, id).message_count)]_vars

\* ---------------------------------------------------------------- C20
\* the step calls getConversationDetail(id): from the UI, or from
\* updateConversation when the View holds the updated conversation
Activates(id) ==
  \/ IsCall("getConversationDetail") /\ lastOp'.id = id
  \/ /\ HandlesPush("conversation_updated")
     /\ Head(wsQueue).conversation.id = id
     /\ currentConversation.id = id

\* C20: a step lowers or clears the unread_count of a conversation's Store
\* entry only if it is getConversationDetail of that conversation.
C20_UnreadResetOnlyByActivation ==
  [][\A id \in ConvIds :
       (/\ ListedOnce(id)
        /\ Num(Find(conversations', id).unread_count)
             < Num(Find(conversations, id).unread_count))
       => Activates(id)]_vars

\* ---------------------------------------------------------------- C21
\* C21: no two entries of the Store have the same id.
C21_StoreIdsUnique == \A id \in ConvIds : Cardinality(StoreEntries(id)) <= 1

\* ---------------------------------------------------------------- C22
\* C22: with getConversationDetail(A) and then getConversationDetail(B) pending,
\* the View ends holding B whatever the order of the responses: once the View
\* holds the conversation requested last, a detail response for another
\* conversation is not applied.
C22_StaleDetailDiscarded ==
  [][\A r \in pending :
       (Continues(r, "detailOk") /\ currentConversation.id = lastRequested)
         => r.id = lastRequested]_vars

\* ---------------------------------------------------------------- C23
\* the conversation identifier of a message in either payload shape
Ident(m) == IF m.conversation # "" THEN m.conversation ELSE m.conversation_id

\* C23: a new_message event is routed to the conversation named by the
\* message's conversation identifier, carried in the field conversation or in
\* the field conversation_id: every Store entry with that id gets the message
\* as last_message, message_count + 1 and the unread change, and a View
\* holding that id gets the message appended.
C23_BothShapesRouted ==
  [][HandlesPush("new_message") =>
       LET m == Head(wsQueue).message
           active == currentConversation.id # "" /\ currentConversation.id = Ident(m)
       IN
       /\ \A i \in StoreEntries(Ident(m)) :
            /\ conversations'[i].last_message = m
            /\ Num(conversations'[i].message_count)
                 = Num(conversations[i].message_count) + 1
            /\ Num(conversations'[i].unread_count)
                 = Num(conversations[i].unread_count) + UnreadDelta(m, active)
       /\ active =>
            currentConversation'.messages = Append(currentConversation.messages, m)]_vars

\* ---------------------------------------------------------------- C24
\* a request of one of the kinds is in flight
Pending(kinds) == \E r \in pending : r.kind \in kinds

\* the operations that raise the loading flag
LoadingKinds == {"init", "list", "close", "create", "reload"}

\* each flag is false when no operation that raises it is in flight
FlagsReset ==
  /\ ~Pending(LoadingKinds) => ~loading
  /\ ~Pending({"detail"}) => ~conversationLoading
  /\ ~Pending({"more"}) => ~loadingMore

\* C24: a loading flag is false whenever no operation that raises it is in
\* flight, after success and after failure; and with every request eventually
\* resolving or rejecting, a flag that is true is eventually false.
C24_FlagsReset ==
  /\ []FlagsReset
  /\ loading ~> ~loading
  /\ conversationLoading ~> ~conversationLoading
  /\ loadingMore ~> ~loadingMore

\* a detail request has just failed, nothing is in flight and every flag is down
C24_Witness ==
  /\ lastOp.op = "detailFail"
  /\ nCalls = MaxCalls
  /\ pending = {}
  /\ ~loading
  /\ ~conversationLoading
  /\ ~loadingMore

\* ---------------------------------------------------------------- C25
\* the last step of the client handled a transport failure: an error event, a
\* close event, or a reconnect whose connect() threw
TransportFailed ==
  \/ lastOp.op \in {"onerror", "onclose"}
  \/ lastOp.op = "timer" /\ timers > 0

\* C25: a socket error event, a socket close event and a failing connect() set
\* the connection status to false and emit no error notification.
C25_TransportFailuresSilent ==
  TransportFailed => (~connectionStatus /\ emitted.errors = << >>)

\* ---------------------------------------------------------------- C26
\* the Store with the unread_count of the entries with the id set to 0
UnreadCleared(convs, id) ==
  /\ Len(conversations') = Len(convs)
  /\ \A i \in 1..Len(convs) :
       /\ convs[i].id = id =>
            conversations'[i] = [convs[i] EXCEPT !.unread_count = 0]
       /\ convs[i].id # id => conversations'[i] = convs[i]

\* the continuation of a rejected request emits the one error named and no
\* success, and leaves Store and View as they are
FailsWith(op, text) ==
  \A r \in pending :
    Continues(r, op) =>
      /\ emitted'.errors = <<text>>
      /\ emitted'.success = << >>
      /\ emitted'.sent = << >>
      /\ UNCHANGED storeVars

\* C26: a rejected getConversationDetail, closeConversation or getConversations
\* emits exactly one named error and no success and changes neither Store nor
\* View; the calls themselves change nothing of Store and View but the
\* optimistic unread reset of getConversationDetail's target.
C26_RejectedRequests ==
  [][/\ FailsWith("detailFail", "Failed to load conversation details")
     /\ FailsWith("closeFail", "Failed to close conversation")
     /\ FailsWith("listFail", "Failed to refresh conversations")
     /\ IsCall("getConversationDetail") =>
          (/\ UnreadCleared(conversations, lastOp'.id)
           /\ UNCHANGED currentConversation)
     /\ (IsCall("closeConversation") \/ IsCall("getConversations")) =>
          UNCHANGED storeVars]_vars

\* the close of the open conversation A was rejected: A is still OPEN in the
\* View and in the Store, and the error was emitted
C26_Witness ==
  /\ lastOp.op = "closeFail"
  /\ lastOp.id = currentConversation.id
  /\ currentConversation.status = "OPEN"
  /\ \A i \in StoreEntries(lastOp.id) : conversations[i].status = "OPEN"
  /\ StoreEntries(lastOp.id) # {}
  /\ emitted.errors = <<"Failed to close conversation">>

\* ---------------------------------------------------------------- C27
\* C27: while a conversation is active, handling a new_message event keeps it
\* active and leaves the View's message list as it was when the event is for
\* another conversation, and as it was followed by the message when the event
\* is for the active one; so after a sequence of such events the list is the
\* list before followed by the events for the active conversation in the order
\* of their arrival.
C27_ViewAppendOnly ==
  [][(HandlesPush("new_message") /\ currentConversation.id # "") =>
       LET m == Head(wsQueue).message IN
       /\ currentConversation'.id = currentConversation.id
       /\ currentConversation'.messages =
            IF m.conversation = currentConversation.id
            THEN currentConversation.messages \o <<m>>
            ELSE currentConversation.messages]_vars

\* the View holds three messages in the order of their arrival, a redelivered
\* earlier message after a later one
C27_Witness ==
  /\ lastOp.op = "new_message"
  /\ currentConversation.id = lastOp.id
  /\ Len(currentConversation.messages) = 3
  /\ currentConversation.messages[3] = lastOp.msg
  /\ currentConversation.messages[2].id > currentConversation.messages[3].id

\* ---------------------------------------------------------------- C28
\* C28: handling new_message(m) sets the last_message of every Store entry of
\* m's conversation to m, the conversation active or not, leaves every other
\* Store entry as it was, and leaves a View holding another conversation as it was.
C28_LastMessage ==
  [][HandlesPush("new_message") =>
       LET m == Head(wsQueue).message IN
       /\ Len(conversations') = Len(conversations)
       /\ \A i \in 1..Len(conversations) :
            IF conversations[i].id = m.conversation
            THEN conversations'[i].last_message = m
            ELSE conversations'[i] = conversations[i]
       /\ currentConversation.id # m.conversation => UNCHANGED currentConversation]_vars

\* a message for the active conversation was handled and is its entry's
\* last_message, beside the entry of another conversation
C28_Witness ==
  /\ lastOp.op = "new_message"
  /\ currentConversation.id = lastOp.id
  /\ StoreEntries(lastOp.id) # {}
  /\ \A i \in StoreEntries(lastOp.id) : conversations[i].last_message = lastOp.msg
  /\ \E i \in 1..Len(conversations) : conversations[i].id # lastOp.id

\* ---------------------------------------------------------------- C29
\* C29: a new_conversation event puts the conversation at the head of the
\* Store's list, followed by the entries held before, unchanged and in their
\* order, and changes neither currentPage nor hasMorePages nor the View.
C29_NewConversationPrepended ==
  [][HandlesPush("new_conversation") =>
       /\ Len(conversations') = Len(conversations) + 1
       /\ conversations'[1] = Head(wsQueue).conversation
       /\ \A i \in 1..Len(conversations) : conversations'[i + 1] = conversations[i]
       /\ UNCHANGED <<currentPage, hasMorePages, currentConversation>>]_vars

\* a new conversation was put in front of an entry already listed
C29_Witness ==
  /\ lastOp.op = "new_conversation"
  /\ Len(conversations) >= 2
  /\ conversations[1].id = lastOp.id
  /\ conversations[2].id # lastOp.id

\* ---------------------------------------------------------------- C30
\* the View holds the conversation of the conversation_updated event at the head
UpdatesActive ==
  /\ currentConversation.id # ""
  /\ currentConversation.id = Head(wsQueue).conversation.id

\* a detail refetch for the id is issued by the step iff the View holds it
RefetchIffActive(id) ==
  IF UpdatesActive
  THEN /\ emitted'.http = <<Http("detail", id, 0)>>
       /\ \E r \in pending' \ pending : r.kind = "detail" /\ r.id = id
       /\ pending \subseteq pending'
  ELSE /\ emitted'.http = << >>
       /\ pending' = pending

\* C30 as stated: a conversation_updated(c) event replaces each Store entry
\* with c's id by c as a whole, leaves the other entries, the order and the
\* length of the list unchanged, and issues a detail refetch for c's id exactly
\* when the View holds it.
C30_ReplacedByPayload ==
  [][HandlesPush("conversation_updated") =>
       LET c == Head(wsQueue).conversation IN
       /\ Len(conversations') = Len(conversations)
       /\ \A i \in 1..Len(conversations) :
            conversations'[i] = IF conversations[i].id = c.id THEN c ELSE conversations[i]
       /\ RefetchIffActive(c.id)
       /\ UNCHANGED currentConversation]_vars

\* C30 amended: as stated, except that when the View holds c's id the
\* replaced entries are c with unread_count 0, by the optimistic reset of the
\* refetch.
C30_ReplacedWholesale ==
  [][HandlesPush("conversation_updated") =>
       LET c == Head(wsQueue).conversation IN
       /\ Len(conversations') = Len(conversations)
       /\ \A i \in 1..Len(conversations) :
            conversations'[i] =
              IF conversations[i].id # c.id THEN conversations[i]
              ELSE IF UpdatesActive THEN [c EXCEPT !.unread_count = 0]
              ELSE c
       /\ RefetchIffActive(c.id)
       /\ UNCHANGED currentConversation]_vars

\* an update of a non-active conversation with cached messages and unread
\* messages was handled: the entry is the payload, nothing was fetched
C30_Witness ==
  /\ lastOp.op = "conversation_updated"
  /\ currentConversation.id # lastOp.id
  /\ observed[lastOp.id] > 0
  /\ StoreEntries(lastOp.id) # {}
  /\ \A i \in StoreEntries(lastOp.id) :
       conversations[i].messages = << >> /\ conversations[i].unread_count = Undef
  /\ emitted.http = << >>

\* ---------------------------------------------------------------- C31
\* C31: an error push event with an error text emits that text once on the
\* error channel, nothing else, and leaves Store, View, pagination state and
\* connection status unchanged.
C31_ErrorEventSurfaced ==
  [][(HandlesPush("error") /\ Head(wsQueue).error # "") =>
       /\ emitted'.errors = <<Head(wsQueue).error>>
       /\ emitted'.success = << >>
       /\ emitted'.sent = << >>
       /\ emitted'.http = << >>
       /\ UNCHANGED <<storeVars, pageVars, connectionStatus, pending>>]_vars

\* a server error was surfaced while a conversation was open and the
\* connection up
C31_Witness ==
  /\ lastOp.op = "error"
  /\ emitted.errors = <<"server error">>
  /\ connectionStatus
  /\ currentConversation.id # ""
  /\ conversations # << >>

\* ---------------------------------------------------------------- C32
\* the event's type is unknown, or its type is known and its payload field is missing
Unroutable(event) ==
  \/ event.type \notin EventTypes
  \/ event.type = "new_message" /\ event.message = NoMsg
  \/ event.type \in {"new_conversation", "conversation_updated"}
       /\ event.conversation = NullConv
  \/ event.type = "error" /\ event.error = ""

\* the step takes the event at the head of the queue
TakesEvent ==
  /\ wsQueue # << >>
  /\ wsQueue' = Tail(wsQueue)
  /\ lastOp'.op \in EventTypes \cup {"ignored"}

\* C32: a push event of an unknown type, or of a known type without its
\* payload field, is ignored: Store, View, pagination state, connection status
\* and requests in flight are unchanged and nothing is emitted.
C32_UnroutableIgnored ==
  [][(TakesEvent /\ Unroutable(Head(wsQueue))) =>
       /\ emitted' = Quiet
       /\ UNCHANGED <<storeVars, pageVars, flagVars, connectionStatus, pending>>]_vars

\* an unroutable event was taken and ignored while a conversation was open and
\* the connection up
C32_Witness ==
  /\ lastOp.op = "ignored"
  /\ emitted = Quiet
  /\ currentConversation.id # ""
  /\ connectionStatus
  /\ nPush = MaxPush

\* ---------------------------------------------------------------- C33
\* the step issues the detail request r
Requests(r) == r \in pending' \ pending /\ r.kind = "detail" /\ ~r.resp.ready

\* what the request keeps of the Store entry is the entry as the call leaves it
KeepsEntry(r) ==
  LET entry == Find(conversations', r.id) IN
  /\ r.existing.found = (entry.id # "")
  /\ r.existing.found =>
       /\ r.existing.contact = entry.contact
       /\ r.existing.assigned_user = entry.assigned_user
       /\ r.existing.messages = entry.messages

\* the View built from the response and what was kept of the Store entry
BuiltFrom(r) ==
  /\ currentConversation'.id = r.id
  /\ currentConversation'.status = r.resp.status
  /\ currentConversation'.closed_at = r.resp.closed_at
  /\ currentConversation'.contact =
       IF r.existing.contact # 0 THEN r.existing.contact ELSE r.resp.contact
  /\ currentConversation'.assigned_user =
       IF r.existing.assigned_user # 0 THEN r.existing.assigned_user
       ELSE r.resp.assigned_user
  /\ currentConversation'.messages =
       IF r.existing.messages # << >> THEN r.existing.messages ELSE r.resp.messages
  /\ currentConversation'.unread_count = 0

\* C33: getConversationDetail(X) reads the Store entry X when it is called, and
\* when its fetch succeeds the View becomes the conversation with id X, status
\* and closed_at of the response, contact and assigned_user of the entry read
\* when it has them and else of the response (else null), the entry's cached
\* messages when there are any and else the response's messages, and
\* unread_count 0.
C33_DetailMerge ==
  [][/\ \A r \in pending' : Requests(r) => KeepsEntry(r)
     /\ \A r \in pending : Continues(r, "detailOk") => BuiltFrom(r)]_vars

\* the View took the assigned user of the Store entry although the response
\* carried another one, and the contact of the response as the entry had none
C33_Witness ==
  /\ lastOp.op = "detailOk"
  /\ currentConversation.id = lastOp.id
  /\ currentConversation.assigned_user # 0
  /\ currentConversation.assigned_user # server[lastOp.id].assigned_user
  /\ server[lastOp.id].assigned_user # 0
  /\ currentConversation.contact # 0
  /\ StoreEntries(lastOp.id) # {}
  /\ \A i \in StoreEntries(lastOp.id) : conversations[i].contact = 0

\* ---------------------------------------------------------------- C34
\* C34: as long as no conversation has been activated (getConversationDetail
\* was never called), no Store entry holds messages, whatever new_message
\* events have been handled.
C34_MessagesOnlyAfterActivation ==
  lastRequested = "" =>
    \A i \in 1..Len(conversations) : conversations[i].messages = << >>

\* ---------------------------------------------------------------- C35
\* the messages the Store entries of id hold: every new_message handled for id
\* since the entry was loaded or replaced
Cached(id) == UNION {Range(conversations[i].messages) : i \in StoreEntries(id)}

\* C35: when the detail fetch of X resolves, every message that handleNewMessage
\* has put into the Store entry X (before the call or while the fetch was
\* pending) is in the View's message list.
C35_NoPushLostByActivation ==
  [][\A r \in pending :
       Continues(r, "detailOk") =>
         Cached(r.id) \subseteq Range(currentConversation'.messages)]_vars

\* ---------------------------------------------------------------- C36
\* C36: when the detail fetch of X resolves, every message of the response is in
\* the View's message list.
C36_FullHistoryShown ==
  [][\A r \in pending :
       Continues(r, "detailOk") =>
         Range(r.resp.messages) \subseteq Range(currentConversation'.messages)]_vars

\* ---------------------------------------------------------------- C37
\* the requests that fetch a page of the list
PageKinds == {"init", "list", "more", "reload"}

\* the pages a Store of n entries holds
PagesHeld(n) == (n + PageSize - 1) \div PageSize

\* C37: currentPage is at least 1, and when no page request is pending a
\* non-empty Store holds exactly the pages 1..currentPage, so that the next
\* loadMoreConversations asks for the first page not yet loaded.
C37_PageCounterConsistent ==
  /\ currentPage >= 1
  /\ (~Pending(PageKinds) /\ conversations # << >>) =>
       PagesHeld(Len(conversations)) = currentPage

\* ---------------------------------------------------------------- C38
\* disconnect() has closed the service's socket and no connect() has run since
Disconnected == ~socket /\ readyState \in {"CLOSING", "CLOSED"}

\* C38: once disconnect() has closed the socket, no step schedules a reconnect
\* and no step creates a connection.
C38_DisconnectEndsTransport ==
  [][Disconnected => (timers' <= timers /\ ~ConnectCreates)]_vars

\* ---------------------------------------------------------------- C39
\* C39: when no HTTP request is pending and the View holds a conversation, every
\* Store entry with that id has the View's status and closed_at.
C39_StoreViewSameStatus ==
  (pending = {} /\ currentConversation.id # "") =>
    \A i \in StoreEntries(currentConversation.id) :
      /\ conversations[i].status = currentConversation.status
      /\ conversations[i].closed_at = currentConversation.closed_at

\* ---------------------------------------------------------------- C40
\* C40: loading is true whenever the request of loadInitialData, getConversations,
\* closeConversation or createConversation (its POST or its reload) is pending.
C40_LoadingCoversPending == Pending(LoadingKinds) => loading

====
